---------------------------- MODULE Spec2Model ----------------------------
(***************************************************************************)
(* Model of skills/criminal-activity-analysis/analyze.py: the risk         *)
(* classifier, the crime-type resolver with its process-lifetime cache,    *)
(* the location analyzer, the recommendation generator and the CLI entry   *)
(* point.  Python values are modelled as follows: a dict is a function     *)
(* whose DOMAIN is its key set, a list is a sequence, a str is a sequence  *)
(* of one-character strings (so that lower(), join and the `in` substring  *)
(* test are computed), an int is an integer and a float is an IEEE-754     *)
(* binary64 value m * 2^e with the significand m kept as a multi-limb natural. *)
(***************************************************************************)
EXTENDS Integers, Sequences, FiniteSets, TLC

VARIABLES
    environ,            \* os.environ restricted to the variables the script reads
    upstream,           \* what the remote API answers: the POST outcome and the types endpoint
    CRIME_TYPE_CACHE,   \* the module-level cache: crime type id -> looked-up dict
    call,               \* the function invoked last, with its arguments
    wire,               \* the HTTP requests the last invocation handed to urlopen
    ret,                \* what the last invocation returned
    stdout,             \* what main printed to sys.stdout
    stderr              \* what main printed to sys.stderr

vars == <<environ, upstream, CRIME_TYPE_CACHE, call, wire, ret, stdout, stderr>>

None == "None"

\* dict.get(key, default)
Get(d, key, default) == IF key \in DOMAIN d THEN d[key] ELSE default

\* the dict with no keys
EmptyDict == <<>>

-----------------------------------------------------------------------------
(* Binary64 arithmetic.  A natural number is a little-endian sequence of   *)
(* 15-bit limbs without a most-significant zero limb (every intermediate    *)
(* product stays below 2^31); a float is [m |-> limbs, e |-> exponent],     *)
(* the value m * 2^e with m < 2^53.                                         *)

LimbBits == 15
LimbBase == 2 ^ LimbBits

RECURSIVE NatToLimbs(_)
NatToLimbs(n) == IF n = 0 THEN <<>> ELSE <<n % LimbBase>> \o NatToLimbs(n \div LimbBase)

\* a * y + carry, for one limb y
RECURSIVE MulLimbC(_, _, _)
MulLimbC(a, y, carry) ==
    IF a = <<>> THEN NatToLimbs(carry)
    ELSE LET t == Head(a) * y + carry
         IN  <<t % LimbBase>> \o MulLimbC(Tail(a), y, t \div LimbBase)

RECURSIVE BigAddC(_, _, _)
BigAddC(a, b, carry) ==
    IF a = <<>> /\ b = <<>> THEN NatToLimbs(carry)
    ELSE LET x == IF a = <<>> THEN 0 ELSE Head(a)
             y == IF b = <<>> THEN 0 ELSE Head(b)
             t == x + y + carry
         IN  <<t % LimbBase>> \o BigAddC(IF a = <<>> THEN <<>> ELSE Tail(a),
                                         IF b = <<>> THEN <<>> ELSE Tail(b),
                                         t \div LimbBase)

BigAdd(a, b) == BigAddC(a, b, 0)

\* a * LimbBase^k
ShiftLimbs(a, k) == IF a = <<>> THEN <<>> ELSE [i \in 1..k |-> 0] \o a

\* a * 2^k
ShiftLeft(a, k) == ShiftLimbs(MulLimbC(a, 2 ^ (k % LimbBits), 0), k \div LimbBits)

RECURSIVE BigMul(_, _)
BigMul(a, b) ==
    IF a = <<>> \/ b = <<>> THEN <<>>
    ELSE BigAdd(MulLimbC(b, Head(a), 0), ShiftLimbs(BigMul(Tail(a), b), 1))

\* a > b on naturals
BigGT(a, b) ==
    \/ Len(a) > Len(b)
    \/ /\ Len(a) = Len(b)
       /\ \E i \in 1..Len(a) :
            /\ a[i] > b[i]
            /\ \A j \in (i+1)..Len(a) : a[j] = b[j]

\* the number of significant bits of a, and bit i of a (bit 1 is the lowest)
BitLen(a) ==
    IF a = <<>> THEN 0
    ELSE (Len(a) - 1) * LimbBits
         + (CHOOSE k \in 1..LimbBits : 2 ^ (k - 1) <= a[Len(a)] /\ a[Len(a)] < 2 ^ k)

Bit(a, i) == (a[(i - 1) \div LimbBits + 1] \div (2 ^ ((i - 1) % LimbBits))) % 2

\* floor(a / 2^k)
ShiftRight(a, k) ==
    LET n == BitLen(a) - k
        limb(j) == LET lo == k + (j - 1) * LimbBits
                   IN  (a[lo \div LimbBits + 1] \div (2 ^ (lo % LimbBits)))
                       + (IF lo \div LimbBits + 2 <= Len(a)
                          THEN (a[lo \div LimbBits + 2] * (2 ^ (LimbBits - (lo % LimbBits))))
                               % LimbBase
                          ELSE 0)
    IN  IF n <= 0 THEN <<>>
        ELSE [j \in 1..((n + LimbBits - 1) \div LimbBits) |-> limb(j) % LimbBase]

\* floor(a / d) and whether a remainder is left, by long division from the top limb
RECURSIVE DivStep(_, _, _, _, _)
DivStep(a, i, d, rem, acc) ==
    IF i = 0 THEN [q |-> acc, inexact |-> rem # 0]
    ELSE LET r == LimbBase * rem + a[i]
             ql == r \div d
         IN  DivStep(a, i - 1, d, r % d,
                     IF acc = <<>> /\ ql = 0 THEN <<>> ELSE <<ql>> \o acc)

DivSmall(a, d) == DivStep(a, Len(a), d, 0, <<>>)

SignificandBits == 53

\* round-to-nearest, ties-to-even, of a * 2^e (plus a sticky fraction) to 53 bits
RoundToDouble(a, sticky, e) ==
    LET shift == BitLen(a) - SignificandBits
    IN  IF shift <= 0 THEN [m |-> a, e |-> e]
        ELSE LET q == ShiftRight(a, shift)
                 guard == Bit(a, shift)
                 rest == sticky \/ \E i \in 1..(shift - 1) : Bit(a, i) = 1
                 up == guard = 1 /\ (rest \/ Bit(q, 1) = 1)
                 q2 == IF up THEN BigAdd(q, <<1>>) ELSE q
             IN  IF BitLen(q2) > SignificandBits
                 THEN [m |-> ShiftRight(q2, 1), e |-> e + shift + 1]
                 ELSE [m |-> q2, e |-> e + shift]

\* the float a decimal literal num/den denotes
DivisionGuardBits == 64

DecimalToDouble(num, den) ==
    LET d == DivSmall(ShiftLeft(NatToLimbs(num), DivisionGuardBits), den)
    IN  RoundToDouble(d.q, d.inexact, 0 - DivisionGuardBits)

\* float(n) for an int n >= 0
IntToDouble(n) == RoundToDouble(NatToLimbs(n), FALSE, 0)

\* float * float
DoubleMul(a, b) == RoundToDouble(BigMul(a.m, b.m), FALSE, a.e + b.e)

\* int > float, for a float >= 0; Python compares an int with a float exactly
IntGreaterThanDouble(score, d) ==
    IF score <= 0 THEN FALSE
    ELSE LET s == NatToLimbs(score)
         IN  IF d.e >= 0 THEN BigGT(s, ShiftLeft(d.m, d.e))
             ELSE BigGT(ShiftLeft(s, 0 - d.e), d.m)

-----------------------------------------------------------------------------
(* Configuration *)

TOP_CRIMES_LIMIT == 10

PeriodNames == <<"dawn", "morning", "afternoon", "night">>

\* the float literals of PERIOD_MAX_SCORES, and the .get default of classify_risk
PERIOD_MAX_SCORES ==
    [dawn |-> 128000, afternoon |-> 165000, morning |-> 185000, night |-> 300000]

DefaultMaxScore == 200000

MaxScoreOf(period) == Get(PERIOD_MAX_SCORES, period, DefaultMaxScore)

HighFactor == DecimalToDouble(70, 100)
MediumFactor == DecimalToDouble(30, 100)

classify_risk(score, period) ==
    LET max_score == IntToDouble(MaxScoreOf(period))
        high_threshold == DoubleMul(max_score, HighFactor)
        medium_threshold == DoubleMul(max_score, MediumFactor)
    IN  IF IntGreaterThanDouble(score, high_threshold) THEN "high"
        ELSE IF IntGreaterThanDouble(score, medium_threshold) THEN "medium"
        ELSE "low"

get_risk_label(risk_level) ==
    Get([high |-> "HIGH", medium |-> "MEDIUM", low |-> "LOW"], risk_level, "UNKNOWN")

-----------------------------------------------------------------------------
(* str.  A str is a TLA+ string; the two accented letters the keyword lists  *)
(* use are written with stand-in characters so that each stays ONE character,*)
(* as in Python: "@" is o-circumflex (U+00F4), "&" its capital (U+00D4),     *)
(* "!" is i-acute (U+00ED) and "|" its capital (U+00CD).                    *)

UpperChars == "ABCDEFGHIJKLMNOPQRSTUVWXYZ&|"
LowerChars == "abcdefghijklmnopqrstuvwxyz@!"

CharAt(s, i) == SubSeq(s, i, i)

\* str.lower() of one character
LowerChar(c) ==
    IF \E i \in 1..Len(UpperChars) : CharAt(UpperChars, i) = c
    THEN CharAt(LowerChars, CHOOSE i \in 1..Len(UpperChars) : CharAt(UpperChars, i) = c)
    ELSE c

\* str.lower()
RECURSIVE lower(_)
lower(s) ==
    IF Len(s) = 0 THEN "" ELSE LowerChar(CharAt(s, 1)) \o lower(SubSeq(s, 2, Len(s)))

\* sep.join(strs)
RECURSIVE Join(_, _)
Join(strs, sep) ==
    IF Len(strs) = 0 THEN ""
    ELSE IF Len(strs) = 1 THEN strs[1]
    ELSE strs[1] \o sep \o Join(Tail(strs), sep)

\* x in s, for two strs
Contains(s, x) ==
    \E i \in 1..(Len(s) - Len(x) + 1) : SubSeq(s, i, i + Len(x) - 1) = x

-----------------------------------------------------------------------------
(* generate_recommendations *)

PhoneWords == {"celular", "celphone", "phone", "telefone"}
TransitWords == {"transporte", "transport", "@nibus", "bus", "metr@", "metro"}
VehicleWords == {"ve!culo", "vehicle", "carro", "car", "moto"}
PedestrianWords == {"pedestre", "pedestrian", "transeunte"}
ValuablesWords == {"roubo", "robbery", "furto", "theft"}

PhoneAdvice ==
    "Keep mobile phones and valuables concealed, avoid using phone while walking"
TransitAdvice ==
    "Stay alert on public transportation, keep bags secure and in front of you"
VehicleAdvice ==
    "Park in well-lit areas, never leave valuables visible in vehicles"
PedestrianAdvice ==
    "Avoid walking alone in isolated areas, especially at night"
ValuablesAdvice ==
    "Avoid displaying expensive items like jewelry, watches, or electronics"
HighRiskAdvice ==
    "Exercise extreme caution in this area, consider alternative locations"
MediumRiskAdvice ==
    "Stay aware of your surroundings and travel in groups when possible"
DefaultAdvice ==
    "Stay aware of your surroundings and report suspicious activity"

\* the str every keyword check searches
CrimeNamesStr(top_crimes) ==
    Join([i \in 1..Len(top_crimes) |-> lower(top_crimes[i].name)], " ")

\* generate_recommendations with the keyword checks chained as if / elif
generate_recommendations_elif(top_crimes, overall_risk) ==
    LET crime_names_str == CrimeNamesStr(top_crimes)
        any(words) == \E x \in words : Contains(crime_names_str, x)
        recommendations ==
            (IF any(PhoneWords) THEN <<PhoneAdvice>>
             ELSE IF any(TransitWords) THEN <<TransitAdvice>>
             ELSE IF any(VehicleWords) THEN <<VehicleAdvice>>
             ELSE IF any(PedestrianWords) THEN <<PedestrianAdvice>>
             ELSE IF any(ValuablesWords) THEN <<ValuablesAdvice>>
             ELSE <<>>)
            \o (IF overall_risk = "high" THEN <<HighRiskAdvice>>
                ELSE IF overall_risk = "medium" THEN <<MediumRiskAdvice>>
                ELSE <<>>)
    IN  IF recommendations = <<>> THEN <<DefaultAdvice>> ELSE recommendations

generate_recommendations(top_crimes, overall_risk) ==
    LET crime_names_str == CrimeNamesStr(top_crimes)
        any(words) == \E x \in words : Contains(crime_names_str, x)
        check(words, advice) == IF any(words) THEN <<advice>> ELSE <<>>
        recommendations ==
            check(PhoneWords, PhoneAdvice)
            \o check(TransitWords, TransitAdvice)
            \o check(VehicleWords, VehicleAdvice)
            \o check(PedestrianWords, PedestrianAdvice)
            \o check(ValuablesWords, ValuablesAdvice)
            \o (IF overall_risk = "high" THEN <<HighRiskAdvice>>
                ELSE IF overall_risk = "medium" THEN <<MediumRiskAdvice>>
                ELSE <<>>)
    IN  IF recommendations = <<>> THEN <<DefaultAdvice>> ELSE recommendations

-----------------------------------------------------------------------------
(* Exceptions, the environment and fetch_json *)

\* the base class of each exception class that can reach the script's handlers
\* (EnvironmentError is an alias of OSError)
BaseClass ==
    [HTTPError |-> "URLError", URLError |-> "OSError", TimeoutError |-> "OSError",
     RemoteDisconnected |-> "OSError", OSError |-> "Exception",
     JSONDecodeError |-> "ValueError", UnicodeDecodeError |-> "ValueError",
     ValueError |-> "Exception", IncompleteRead |-> "Exception",
     RuntimeError |-> "Exception", AttributeError |-> "Exception"]

RECURSIVE IsInstance(_, _)
IsInstance(cls, base) ==
    \/ cls = base
    \/ cls \in DOMAIN BaseClass /\ IsInstance(BaseClass[cls], base)

Returned(v) == [raised |-> FALSE, value |-> v]
Raised(cls, msg) == [raised |-> TRUE, exc |-> [cls |-> cls, msg |-> msg]]

DEFAULT_API_URL == "http://thomas:11004"

\* get_api_key: the key, or EnvironmentError when it is unset or empty
get_api_key(env) ==
    LET key == Get(env, "CRIMINAL_ANALYSIS_API_KEY", "")
    IN  IF Len(key) = 0
        THEN Raised("OSError", "CRIMINAL_ANALYSIS_API_KEY environment variable is required")
        ELSE Returned(key)

get_base_url(env) == Get(env, "CRIMINAL_ANALYSIS_API_URL", DEFAULT_API_URL)

\* What urlopen, read, decode and json.loads do with one request is the remote
\* side's choice: [kind |-> "json", value |-> v] is a 2xx answer whose body
\* parses to v, [kind |-> "raise", exc |-> cls] an exception of class cls
\* raised inside the try block.
JsonOutcome(v) == [kind |-> "json", value |-> v]
RaiseOutcome(cls) == [kind |-> "raise", exc |-> cls]

\* fetch_json: .out is what it returns or raises, .sent the requests handed to urlopen
fetch_json(env, url, method, outcome) ==
    LET key == get_api_key(env)
        request == [method |-> method, url |-> url]
    IN  IF key.raised THEN [out |-> key, sent |-> <<>>]
        ELSE [sent |-> <<request>>,
              out |-> IF outcome.kind = "json" THEN Returned(outcome.value)
                      ELSE IF IsInstance(outcome.exc, "HTTPError")
                      THEN Raised("RuntimeError", "API error")
                      ELSE IF IsInstance(outcome.exc, "URLError")
                      THEN Raised("RuntimeError", "Network error")
                      ELSE IF IsInstance(outcome.exc, "JSONDecodeError")
                      THEN Raised("RuntimeError", "Invalid JSON response")
                      ELSE Raised(outcome.exc, outcome.exc)]

-----------------------------------------------------------------------------
(* get_crime_type *)

TypesUrl(env, crime_type_id) ==
    get_base_url(env) \o "/api/v1/criminal/types/" \o ToString(crime_type_id)

\* the dict get_crime_type returns when the lookup fails
FallbackCrimeType(crime_type_id) ==
    [id |-> crime_type_id,
     description |-> "Crime Type #" \o ToString(crime_type_id),
     score |-> 1]

\* get_crime_type that stores whatever it returns, the fallback included
get_crime_type_cache_all(cache, env, crime_type_id, outcome) ==
    IF crime_type_id \in DOMAIN cache
    THEN [out |-> Returned(cache[crime_type_id]), cache |-> cache, sent |-> <<>>]
    ELSE LET fetched == fetch_json(env, TypesUrl(env, crime_type_id), "GET", outcome)
             result == IF fetched.out.raised THEN FallbackCrimeType(crime_type_id)
                       ELSE fetched.out.value
         IN  [out |-> Returned(result), cache |-> (crime_type_id :> result) @@ cache,
              sent |-> fetched.sent]

\* get_crime_type whose handler is `except RuntimeError`
get_crime_type_except_runtime(cache, env, crime_type_id, outcome) ==
    IF crime_type_id \in DOMAIN cache
    THEN [out |-> Returned(cache[crime_type_id]), cache |-> cache, sent |-> <<>>]
    ELSE LET fetched == fetch_json(env, TypesUrl(env, crime_type_id), "GET", outcome)
         IN  IF ~fetched.out.raised
             THEN [out |-> fetched.out,
                   cache |-> (crime_type_id :> fetched.out.value) @@ cache,
                   sent |-> fetched.sent]
             ELSE IF IsInstance(fetched.out.exc.cls, "RuntimeError")
             THEN [out |-> Returned(FallbackCrimeType(crime_type_id)), cache |-> cache,
                   sent |-> fetched.sent]
             ELSE [out |-> fetched.out, cache |-> cache, sent |-> fetched.sent]

\* get_crime_type: .out is what it returns or raises, .cache the cache
\* afterwards, .sent the requests issued; outcome is what the GET meets if it
\* is issued
get_crime_type(cache, env, crime_type_id, outcome) ==
    IF crime_type_id \in DOMAIN cache
    THEN [out |-> Returned(cache[crime_type_id]), cache |-> cache, sent |-> <<>>]
    ELSE LET fetched == fetch_json(env, TypesUrl(env, crime_type_id), "GET", outcome)
         IN  IF ~fetched.out.raised
             THEN [out |-> fetched.out,
                   cache |-> (crime_type_id :> fetched.out.value) @@ cache,
                   sent |-> fetched.sent]
             ELSE IF IsInstance(fetched.out.exc.cls, "Exception")
             THEN [out |-> Returned(FallbackCrimeType(crime_type_id)), cache |-> cache,
                   sent |-> fetched.sent]
             ELSE [out |-> fetched.out, cache |-> cache, sent |-> fetched.sent]

-----------------------------------------------------------------------------
(* analyze_location.  all_crimes is a dict, which keeps its keys in insertion  *)
(* order: it is modelled as the sequence of its items [id, count] in that      *)
(* order.                                                                      *)

AnalyzeUrl(env) == get_base_url(env) \o "/api/v1/criminal/activity-analysis/analyze"

\* all_crimes[crime_type] = all_crimes.get(crime_type, 0) + count
AddCount(all_crimes, crime_type, count) ==
    IF \E k \in 1..Len(all_crimes) : all_crimes[k].id = crime_type
    THEN [k \in 1..Len(all_crimes) |->
            IF all_crimes[k].id = crime_type
            THEN [id |-> crime_type, count |-> all_crimes[k].count + count]
            ELSE all_crimes[k]]
    ELSE Append(all_crimes, [id |-> crime_type, count |-> count])

\* the loop over one period's occurrences
RECURSIVE Aggregate(_, _)
Aggregate(all_crimes, occurrences) ==
    IF Len(occurrences) = 0 THEN all_crimes
    ELSE LET occ == Head(occurrences)
             crime_type == Get(occ, "crimeType", 0)
             count == Get(occ, "count", 0)
         IN  Aggregate(AddCount(all_crimes, crime_type, count), Tail(occurrences))

\* the locals of analyze_location before the loop over the periods
BeforePeriods_zero_sentinel ==
    [periods |-> <<>>, all_crimes |-> <<>>,
     highest_risk_period |-> None, highest_risk_score |-> 0]

BeforePeriods ==
    [periods |-> <<>>, all_crimes |-> <<>>,
     highest_risk_period |-> None, highest_risk_score |-> -1]

\* "if score > highest_risk_score" written with >=
IsHigher_or_equal(score, highest_risk_score) == score >= highest_risk_score

IsHigher(score, highest_risk_score) == score > highest_risk_score

\* the entry of periods built for one period
PeriodReport(period_name, period_data) ==
    LET score == Get(period_data, "score", 0)
        position == Get(period_data, "scorePosition", 0)
        risk_level == classify_risk(score, period_name)
    IN  [period |-> period_name, score |-> score, position |-> position,
         riskLevel |-> risk_level, riskLabel |-> get_risk_label(risk_level)]

\* a loop that walks the keys of content instead of the four fixed names
RECURSIVE WalkPeriods_present_only(_, _, _)
WalkPeriods_present_only(content, i, acc) ==
    IF i > Len(PeriodNames) THEN acc
    ELSE IF PeriodNames[i] \notin DOMAIN content
    THEN WalkPeriods_present_only(content, i + 1, acc)
    ELSE LET period_name == PeriodNames[i]
             period_data == content[period_name]
             score == Get(period_data, "score", 0)
             higher == IsHigher(score, acc.highest_risk_score)
         IN  WalkPeriods_present_only(content, i + 1,
                [periods |-> Append(acc.periods, PeriodReport(period_name, period_data)),
                 highest_risk_score |-> IF higher THEN score ELSE acc.highest_risk_score,
                 highest_risk_period |->
                     IF higher THEN period_name ELSE acc.highest_risk_period,
                 all_crimes |->
                     Aggregate(acc.all_crimes,
                         Get(period_data, "occurrencesWithinCriminalDangerZones", <<>>))])

\* the loop "for period_name in [dawn, morning, afternoon, night]", from its
\* i-th iteration on
RECURSIVE WalkPeriods(_, _, _)
WalkPeriods(content, i, acc) ==
    IF i > Len(PeriodNames) THEN acc
    ELSE LET period_name == PeriodNames[i]
             period_data == Get(content, period_name, EmptyDict)
             score == Get(period_data, "score", 0)
             higher == IsHigher(score, acc.highest_risk_score)
             occurrences == Get(period_data, "occurrencesWithinCriminalDangerZones", <<>>)
         IN  WalkPeriods(content, i + 1,
                [periods |-> Append(acc.periods, PeriodReport(period_name, period_data)),
                 highest_risk_score |-> IF higher THEN score ELSE acc.highest_risk_score,
                 highest_risk_period |->
                     IF higher THEN period_name ELSE acc.highest_risk_period,
                 all_crimes |-> Aggregate(acc.all_crimes, occurrences)])

\* a sort that is not stable: an item goes in front of the items of equal count
RECURSIVE SortedByCountDesc_unstable(_)
SortedByCountDesc_unstable(items) ==
    IF Len(items) = 0 THEN <<>>
    ELSE LET front == SortedByCountDesc_unstable(SubSeq(items, 1, Len(items) - 1))
             x == items[Len(items)]
             k == Cardinality({j \in 1..Len(front) : front[j].count > x.count})
         IN  SubSeq(front, 1, k) \o <<x>> \o SubSeq(front, k + 1, Len(front))

\* sorted(items, key=count, reverse=True): a stable sort, so items of equal
\* count keep their order; each item goes behind every item whose count is
\* not smaller
RECURSIVE SortedByCountDesc(_)
SortedByCountDesc(items) ==
    IF Len(items) = 0 THEN <<>>
    ELSE LET front == SortedByCountDesc(SubSeq(items, 1, Len(items) - 1))
             x == items[Len(items)]
             k == Cardinality({j \in 1..Len(front) : front[j].count >= x.count})
         IN  SubSeq(front, 1, k) \o <<x>> \o SubSeq(front, k + 1, Len(front))

\* sorted_crimes[:TOP_CRIMES_LIMIT]
TopSlice(sorted_crimes) ==
    SubSeq(sorted_crimes, 1,
           IF Len(sorted_crimes) < TOP_CRIMES_LIMIT THEN Len(sorted_crimes)
           ELSE TOP_CRIMES_LIMIT)

\* what GET /api/v1/criminal/types/{id} meets, given the state of the types endpoint
TypesOutcome(up, crime_type_id) == up.types[crime_type_id]

\* the loop that resolves the top crimes, from its i-th item on; it stops at
\* the first get_crime_type that raises
RECURSIVE ResolveTop(_, _, _, _, _)
ResolveTop(env, up, items, i, acc) ==
    IF i > Len(items) \/ acc.out.raised THEN acc
    ELSE LET crime_id == items[i].id
             got == get_crime_type(acc.cache, env, crime_id, TypesOutcome(up, crime_id))
         IN  IF got.out.raised
             THEN [acc EXCEPT !.out = got.out, !.cache = got.cache,
                              !.sent = acc.sent \o got.sent]
             ELSE LET crime_info == got.out.value
                      entry == [id |-> crime_id,
                                name |-> Get(crime_info, "description",
                                             "Crime #" \o ToString(crime_id)),
                                severity |-> Get(crime_info, "score", 1),
                                count |-> items[i].count]
                  IN  ResolveTop(env, up, items, i + 1,
                        [out |-> Returned(Append(acc.out.value, entry)),
                         cache |-> got.cache, sent |-> acc.sent \o got.sent])

\* overall_risk, from the locals the loop over the periods leaves
OverallRisk(walked) ==
    IF walked.highest_risk_period # None
    THEN classify_risk(walked.highest_risk_score, walked.highest_risk_period)
    ELSE "low"

\* the dict analyze_location returns
ResultDict(address, location, walked, top_crimes, overall_risk) ==
    [success |-> TRUE,
     location |-> [query |-> address,
                   coordinates |-> Get(location, "coordinates", <<None, None>>),
                   latitude |-> Get(location, "y", None),
                   longitude |-> Get(location, "x", None)],
     analysis |-> [overallRisk |-> overall_risk,
                   overallRiskLabel |-> get_risk_label(overall_risk),
                   highestRiskPeriod |-> walked.highest_risk_period,
                   periods |-> walked.periods],
     topCrimes |-> top_crimes,
     recommendations |-> generate_recommendations(top_crimes, overall_risk)]

\* analyze_location once the top crimes are resolved
AfterResolve(address, location, walked, resolved) ==
    IF resolved.out.raised THEN resolved
    ELSE [cache |-> resolved.cache, sent |-> resolved.sent,
          out |-> Returned(ResultDict(address, location, walked, resolved.out.value,
                                      OverallRisk(walked)))]

\* analyze_location once the loop over the periods is done
AfterPeriods(cache, env, address, up, location, walked, sent) ==
    AfterResolve(address, location, walked,
                 ResolveTop(env, up, TopSlice(SortedByCountDesc(walked.all_crimes)), 1,
                            [out |-> Returned(<<>>), cache |-> cache, sent |-> sent]))

\* analyze_location once fetch_json has returned or raised
AfterPost(cache, env, address, up, fetched) ==
    IF fetched.out.raised
    THEN [out |-> fetched.out, cache |-> cache, sent |-> fetched.sent]
    ELSE AfterPeriods(cache, env, address, up,
                      Get(fetched.out.value, "location", EmptyDict),
                      WalkPeriods(Get(fetched.out.value, "content", EmptyDict), 1,
                                  BeforePeriods),
                      fetched.sent)

\* analyze_location: .out is the dict returned or the exception raised, .cache
\* the cache afterwards, .sent the requests issued
analyze_location(cache, env, address, up) ==
    AfterPost(cache, env, address, up, fetch_json(env, AnalyzeUrl(env), "POST", up.post))

-----------------------------------------------------------------------------
(* main *)

\* the "error" field main reports for an exception: the first handler, in the
\* order EnvironmentError, RuntimeError, Exception, whose class it is
ErrorKind(cls) ==
    IF IsInstance(cls, "OSError") THEN "configuration_error"
    ELSE IF IsInstance(cls, "RuntimeError") THEN "api_error"
    ELSE "unexpected_error"

\* what main prints and returns for what analyze_location did
Report(args, done) ==
    IF ~done.out.raised
    THEN [stdout |-> <<[json |-> done.out.value, pretty |-> args.pretty]>>,
          stderr |-> <<>>, ret |-> 0, cache |-> done.cache, sent |-> done.sent]
    ELSE [stdout |-> <<>>,
          stderr |-> <<[json |-> [success |-> FALSE,
                                  error |-> ErrorKind(done.out.exc.cls),
                                  message |-> done.out.exc.msg]]>>,
          ret |-> 1, cache |-> done.cache, sent |-> done.sent]

\* main: what it prints and returns, and the cache and requests of its analysis
main(cache, env, args, up) == Report(args, analyze_location(cache, env, args.address, up))

-----------------------------------------------------------------------------
(* The process: its environment is fixed when it starts, the cache is empty   *)
(* and nothing has been called.                                               *)

Idle == [fn |-> "none"]

\* no request has been met by the remote side, no call has returned
NoRequest == [kind |-> "none"]

NoReturn == [raised |-> FALSE]

KeyedEnviron == [CRIMINAL_ANALYSIS_API_KEY |-> "secret"]

Environs == {EmptyDict, [CRIMINAL_ANALYSIS_API_KEY |-> ""], KeyedEnviron}

InitIn(envs) ==
    /\ environ \in envs
    /\ upstream = [post |-> NoRequest, types |-> <<>>]
    /\ CRIME_TYPE_CACHE = EmptyDict
    /\ call = Idle
    /\ wire = <<>>
    /\ ret = NoReturn
    /\ stdout = <<>>
    /\ stderr = <<>>

Init == InitIn(Environs)

KeySet == Len(Get(environ, "CRIMINAL_ANALYSIS_API_KEY", "")) > 0

-----------------------------------------------------------------------------
(* classify_risk applied to scores around every threshold *)

ScoreSlack == 2

ClassifyPeriods == {"dawn", "morning", "afternoon", "night", "noon"}

ExactThresholds ==
    {(f * MaxScoreOf(p)) \div 100 : f \in {30, 70}, p \in ClassifyPeriods}

ClassifyScores ==
    {0} \cup {t + d : t \in ExactThresholds, d \in (0 - ScoreSlack)..ScoreSlack}

ClassifyRisk ==
    /\ call = Idle
    /\ \E score \in ClassifyScores, period \in ClassifyPeriods :
        /\ call' = [fn |-> "classify_risk", score |-> score, period |-> period]
        /\ ret' = classify_risk(score, period)
    /\ UNCHANGED <<environ, upstream, CRIME_TYPE_CACHE, wire, stdout, stderr>>

NextClassify == ClassifyRisk

SpecClassify == Init /\ [][NextClassify]_vars

\* C1: classify_risk returns "high" exactly when score > 0.70*max, "medium"
\* exactly when 0.30*max < score <= 0.70*max and "low" otherwise, for every
\* period; a score equal to 0.70*max is "medium", one equal to 0.30*max "low".
C1_StrictThresholds ==
    call.fn = "classify_risk" =>
        LET max_score == MaxScoreOf(call.period)
        IN  /\ (ret = "high") <=> (100 * call.score > 70 * max_score)
            /\ (ret = "medium") <=> (/\ 100 * call.score > 30 * max_score
                                     /\ 100 * call.score <= 70 * max_score)
            /\ (ret = "low") <=> (100 * call.score <= 30 * max_score)

-----------------------------------------------------------------------------
(* generate_recommendations applied to lists of crime names *)

MaxTop == 2

RecNames ==
    {"Furto de Celular", "ROUBO DE VE|CULO", "Assalto em &nibus", "Homic!dio",
     "Carteira", "Moto, Metr@ e Pedestre"}

RiskLevels == {"low", "medium", "high"}

RECURSIVE SeqsUpTo(_, _)
SeqsUpTo(S, n) ==
    IF n = 0 THEN {<<>>}
    ELSE LET shorter == SeqsUpTo(S, n - 1)
         IN  shorter \cup {Append(q, x) : q \in {r \in shorter : Len(r) = n - 1}, x \in S}

GenerateRecommendations ==
    /\ call = Idle
    /\ \E top_crimes \in SeqsUpTo({[name |-> n] : n \in RecNames}, MaxTop),
          overall_risk \in RiskLevels :
        /\ call' = [fn |-> "generate_recommendations", top_crimes |-> top_crimes,
                    overall_risk |-> overall_risk]
        /\ ret' = generate_recommendations(top_crimes, overall_risk)
    /\ UNCHANGED <<environ, upstream, CRIME_TYPE_CACHE, wire, stdout, stderr>>

NextRecs == GenerateRecommendations

SpecRecs == Init /\ [][NextRecs]_vars

RecsReturned == call.fn = "generate_recommendations"

\* the advisory strings in the order of the checks that append them
AdviceOrder ==
    <<PhoneAdvice, TransitAdvice, VehicleAdvice, PedestrianAdvice, ValuablesAdvice,
      HighRiskAdvice, MediumRiskAdvice>>

\* C7: generate_recommendations returns 1 to 6 distinct strings in the order
\* phone, transit, vehicle, pedestrian, valuables, risk-level advice; a keyword
\* check's string is present iff one of its keywords is a substring of the
\* lower-cased space-joined names; the risk-level string is present iff the
\* overall risk is high or medium; the default advisory is present iff no other
\* check fired, and is then the only entry.
C7_Recommendations ==
    RecsReturned =>
        LET names == Join([i \in 1..Len(call.top_crimes) |->
                              lower(call.top_crimes[i].name)], " ")
            hit(words) == \E x \in words : Contains(names, x)
            has(a) == \E i \in 1..Len(ret) : ret[i] = a
            pos(a) == CHOOSE k \in 1..Len(AdviceOrder) : AdviceOrder[k] = a
            fired == \/ hit(PhoneWords) \/ hit(TransitWords) \/ hit(VehicleWords)
                     \/ hit(PedestrianWords) \/ hit(ValuablesWords)
                     \/ call.overall_risk \in {"high", "medium"}
        IN  /\ Len(ret) \in 1..6
            /\ \A i, j \in 1..Len(ret) : i # j => ret[i] # ret[j]
            /\ has(PhoneAdvice) <=> hit(PhoneWords)
            /\ has(TransitAdvice) <=> hit(TransitWords)
            /\ has(VehicleAdvice) <=> hit(VehicleWords)
            /\ has(PedestrianAdvice) <=> hit(PedestrianWords)
            /\ has(ValuablesAdvice) <=> hit(ValuablesWords)
            /\ has(HighRiskAdvice) <=> call.overall_risk = "high"
            /\ has(MediumRiskAdvice) <=> call.overall_risk = "medium"
            /\ has(DefaultAdvice) <=> ~fired
            /\ has(DefaultAdvice) => ret = <<DefaultAdvice>>
            /\ fired =>
                /\ \A i \in 1..Len(ret) :
                      \E k \in 1..Len(AdviceOrder) : AdviceOrder[k] = ret[i]
                /\ \A i, j \in 1..Len(ret) : i < j => pos(ret[i]) < pos(ret[j])

\* C7 witness: "Furto de Celular" at high risk gives phone advice, then the
\* valuables advice its "furto" fires, then extreme-caution advice
C7_Witness ==
    /\ RecsReturned
    /\ call.top_crimes = <<[name |-> "Furto de Celular"]>>
    /\ call.overall_risk = "high"
    /\ ret = <<PhoneAdvice, ValuablesAdvice, HighRiskAdvice>>

-----------------------------------------------------------------------------
(* The remote API *)

\* the exceptions a request can meet inside fetch_json's try block: an HTTP
\* status (HTTPError), the connection (URLError: DNS, refused, connect
\* timeout), the wait for and the read of the answer (TimeoutError,
\* RemoteDisconnected, IncompleteRead), and the body (UnicodeDecodeError from
\* decode, JSONDecodeError from json.loads)
RequestFailures ==
    {"HTTPError", "URLError", "TimeoutError", "RemoteDisconnected", "IncompleteRead",
     "UnicodeDecodeError", "JSONDecodeError"}

CatalogueNames ==
    <<"Homic!dio", "Furto de Celular", "ROUBO DE VE|CULO", "Assalto em &nibus">>

\* the dict the types endpoint answers for an id in revision rev of its
\* catalogue; revision 0 answers the id alone
CrimeTypeRecord(id, rev) ==
    IF rev = 0 THEN [id |-> id]
    ELSE [id |-> id,
          description |-> IF rev = 1 THEN CatalogueNames[(id % Len(CatalogueNames)) + 1]
                          ELSE CatalogueNames[(id % Len(CatalogueNames)) + 1]
                               \o " r" \o ToString(rev),
          score |-> (id % 3) + rev]

MaxRev == 2

TypeOutcomes(id) ==
    {JsonOutcome(CrimeTypeRecord(id, rev)) : rev \in 0..MaxRev}
    \cup {RaiseOutcome(c) : c \in RequestFailures}

\* states of the types endpoint over ids: the ids in down fail with class c,
\* the others answer revision rev
TypesEndpoints(ids, downs, classes, revs) ==
    {[i \in ids |-> IF i \in down THEN RaiseOutcome(c)
                    ELSE JsonOutcome(CrimeTypeRecord(i, rev))] :
        down \in downs, c \in classes, rev \in revs}

Location == [x |-> -46, y |-> -23, coordinates |-> <<-46, -23>>]

Addresses == {"Praca da Republica Sao Paulo"}

-----------------------------------------------------------------------------
(* main, run once per process, on answers that vary the period scores *)

ScoreValues == {-2, -1, 0, 100000, 150000}

ScoreDatas == {[score |-> v, scorePosition |-> 7] : v \in ScoreValues}

NightOccurrences == <<[crimeType |-> 1, count |-> 5]>>

ScoreContents ==
    UNION {
        {[p \in present |->
            IF p = "night"
            THEN d[p] @@ [occurrencesWithinCriminalDangerZones |-> NightOccurrences]
            ELSE d[p]] : d \in [present -> ScoreDatas]} :
        present \in SUBSET {PeriodNames[i] : i \in 1..Len(PeriodNames)}}

ScoreUpstreams ==
    {[post |-> JsonOutcome([location |-> Location, content |-> c]), types |-> t] :
        c \in ScoreContents,
        t \in TypesEndpoints({1}, {{}, {1}}, {"TimeoutError"}, {1})}
    \cup {[post |-> RaiseOutcome(c), types |-> <<NoRequest>>] : c \in RequestFailures}

MainArgs == {[address |-> a, pretty |-> b] : a \in Addresses, b \in BOOLEAN}

MainRun(ups, argvs) ==
    /\ call = Idle
    /\ \E args \in argvs, up \in ups :
        \E r \in {main(CRIME_TYPE_CACHE, environ, args, up)} :
            /\ call' = [fn |-> "main", args |-> args]
            /\ upstream' = up
            /\ ret' = r.ret
            /\ stdout' = r.stdout
            /\ stderr' = r.stderr
            /\ CRIME_TYPE_CACHE' = r.cache
            /\ wire' = r.sent
    /\ UNCHANGED environ

NextMain == MainRun(ScoreUpstreams, MainArgs)

SpecMain == Init /\ [][NextMain]_vars

\* main has run and printed a result
Succeeded == call.fn = "main" /\ ret = 0

\* the dict analyze_location returned to main
Result == stdout[1].json

\* the content object of the answer to the POST
Content == Get(upstream.post.value, "content", EmptyDict)

\* the score the answer carries for a period, 0 when it carries none
ScoreOf(period_name) == Get(Get(Content, period_name, EmptyDict), "score", 0)

FourNames == <<"dawn", "morning", "afternoon", "night">>

\* the earliest of the four periods whose score is the largest score
EarliestMaximum ==
    FourNames[CHOOSE i \in 1..4 :
        /\ \A j \in 1..4 : ScoreOf(FourNames[j]) <= ScoreOf(FourNames[i])
        /\ \A j \in 1..(i - 1) : ScoreOf(FourNames[j]) < ScoreOf(FourNames[i])]

\* C4, as claimed: highestRiskPeriod is the earliest period, in the order dawn,
\* morning, afternoon, night, whose score equals the maximum of the four scores.
C4_EarliestMaximum ==
    Succeeded => Result.analysis.highestRiskPeriod = EarliestMaximum

\* C4, amended: highestRiskPeriod is the earliest period whose score equals the
\* maximum of the four scores when that maximum is greater than -1, so that of
\* two periods tied for the highest score the earlier is reported; when no
\* score is greater than -1 it is null.
C4_EarliestMaximumAboveSentinel ==
    Succeeded =>
        Result.analysis.highestRiskPeriod =
            (IF \E i \in 1..4 : ScoreOf(FourNames[i]) > -1 THEN EarliestMaximum ELSE None)

\* C4 witness: dawn and night tie for the highest score and dawn is reported
C4_Witness ==
    /\ Succeeded
    /\ ScoreOf("dawn") = 150000 /\ ScoreOf("night") = 150000
    /\ ScoreOf("morning") < 150000 /\ ScoreOf("afternoon") < 150000
    /\ Result.analysis.highestRiskPeriod = "dawn"

\* C5: the periods list of every result has exactly four entries named dawn,
\* morning, afternoon, night in that order, whichever period keys the answer's
\* content carries; a period whose sub-object is missing is reported with
\* score 0, position 0, riskLevel "low" and label "LOW".
C5_FourPeriods ==
    Succeeded =>
        LET periods == Result.analysis.periods
        IN  /\ Len(periods) = 4
            /\ \A i \in 1..4 :
                /\ periods[i].period = FourNames[i]
                /\ FourNames[i] \notin DOMAIN Content =>
                    /\ periods[i].score = 0
                    /\ periods[i].position = 0
                    /\ periods[i].riskLevel = "low"
                    /\ periods[i].riskLabel = "LOW"

\* C5 witness: a result for an answer that carries dawn and night only
C5_Witness ==
    /\ Succeeded
    /\ DOMAIN Content = {"dawn", "night"}
    /\ Result.analysis.periods[2].period = "morning"
    /\ Result.analysis.periods[2].score = 0
    /\ Result.analysis.periods[4].score = 150000

\* C6: a run of main either prints the full result to stdout and exits 0, or
\* prints nothing to stdout, one error object to stderr and exits 1, where the
\* error is "configuration_error" exactly when the API key is missing and
\* "api_error" for every HTTP-status, transport or decoding failure of the
\* POST; a failed crime-type lookup never produces an error object.
C6_ErrorKinds ==
    call.fn = "main" =>
        /\ \/ /\ ret = 0
              /\ Len(stdout) = 1 /\ stdout[1].json.success
              /\ stderr = <<>>
           \/ /\ ret = 1
              /\ stdout = <<>>
              /\ Len(stderr) = 1 /\ ~stderr[1].json.success
              /\ (stderr[1].json.error = "configuration_error") <=> ~KeySet
              /\ (KeySet /\ upstream.post.kind = "raise") =>
                    stderr[1].json.error = "api_error"
        /\ (KeySet /\ upstream.post.kind = "json") => ret = 0

\* C9, as claimed: highestRiskPeriod is never null, whatever the period scores.
C9_NeverNull == Succeeded => Result.analysis.highestRiskPeriod # None

\* C9, amended: highestRiskPeriod is null exactly when every period's score is
\* at most -1, the initial value of the running highest score, and then the
\* guard makes overallRisk "low"; whenever some score is greater than -1 (every
\* score that is absent or not negative is) it is not null.
C9_NullOnlyBelowSentinel ==
    Succeeded =>
        /\ (Result.analysis.highestRiskPeriod = None)
              <=> (\A i \in 1..4 : ScoreOf(FourNames[i]) <= -1)
        /\ Result.analysis.highestRiskPeriod = None => Result.analysis.overallRisk = "low"

\* C9 witness: the answer's content is empty, every score defaults to 0, and
\* dawn is reported
C9_Witness ==
    /\ Succeeded
    /\ DOMAIN Content = {}
    /\ Result.analysis.highestRiskPeriod = "dawn"

Severity(risk_level) == CASE risk_level = "low" -> 0 [] risk_level = "medium" -> 1 [] OTHER -> 2

\* C10: overallRisk equals the riskLevel reported for the period named
\* highestRiskPeriod, and no entry of periods has a riskLevel more severe than
\* overallRisk.
C10_OverallRiskIsMostSevere ==
    Succeeded =>
        LET periods == Result.analysis.periods
        IN  /\ \A i \in 1..Len(periods) :
                periods[i].period = Result.analysis.highestRiskPeriod
                    => periods[i].riskLevel = Result.analysis.overallRisk
            /\ \A i \in 1..Len(periods) :
                Severity(periods[i].riskLevel) <= Severity(Result.analysis.overallRisk)

-----------------------------------------------------------------------------
(* main, run once per process, on answers that vary the crime occurrences:   *)
(* dawn carries a run of distinct ids long enough to pass TOP_CRIMES_LIMIT,  *)
(* the other periods short lists that repeat ids of the run, bring new ids   *)
(* and leave keys out.                                                       *)

ExtraIds == 2

MaxOcc == 2

\* the id of the i-th occurrence of the run: the ids come in descending order
RunId(i) == 2 * TOP_CRIMES_LIMIT - i

LongRun(n) == [i \in 1..n |-> [crimeType |-> RunId(i), count |-> 1 + (i % 3)]]

RunLengths == {0} \cup ((TOP_CRIMES_LIMIT - 1)..(TOP_CRIMES_LIMIT + ExtraIds))

OccurrenceChoices ==
    [morning |-> {[crimeType |-> RunId(2), count |-> 1], [count |-> 2]},
     afternoon |-> {[crimeType |-> 2, count |-> 2], [crimeType |-> RunId(3)]},
     night |-> {[crimeType |-> 2, count |-> 3], [crimeType |-> 0, count |-> 1]}]

\* a period's sub-object for a list of occurrences; an empty list leaves the key out
CrimeData(occurrences) ==
    IF Len(occurrences) = 0 THEN [scorePosition |-> 1]
    ELSE [scorePosition |-> 1, occurrencesWithinCriminalDangerZones |-> occurrences]

CrimeContents ==
    {[dawn |-> CrimeData(LongRun(n)), morning |-> CrimeData(m),
      afternoon |-> CrimeData(a), night |-> CrimeData(g)] :
        n \in RunLengths,
        m \in SeqsUpTo(OccurrenceChoices.morning, MaxOcc),
        a \in SeqsUpTo(OccurrenceChoices.afternoon, 1),
        g \in SeqsUpTo(OccurrenceChoices.night, MaxOcc)}

CrimeUpstreams ==
    {[post |-> JsonOutcome([location |-> Location, content |-> c]), types |-> t] :
        c \in CrimeContents,
        t \in TypesEndpoints(0..(2 * TOP_CRIMES_LIMIT), {{}, {2, RunId(1)}},
                             {"URLError"}, {1})}

NextCrimes == MainRun(CrimeUpstreams, {[address |-> a, pretty |-> TRUE] : a \in Addresses})

SpecCrimes == InitIn({KeyedEnviron}) /\ [][NextCrimes]_vars

\* every occurrence of the answer, in the order dawn, morning, afternoon, night
AllOccurrences ==
    LET of(p) == Get(Get(Content, p, EmptyDict), "occurrencesWithinCriminalDangerZones", <<>>)
    IN  of("dawn") \o of("morning") \o of("afternoon") \o of("night")

OccId(occ) == Get(occ, "crimeType", 0)

EncounteredIds == {OccId(AllOccurrences[k]) : k \in 1..Len(AllOccurrences)}

FirstSeen(occs, id) ==
    CHOOSE k \in 1..Len(occs) :
        /\ OccId(occs[k]) = id
        /\ \A j \in 1..(k - 1) : OccId(occs[j]) # id

RECURSIVE TotalFrom(_, _, _)
TotalFrom(occs, id, k) ==
    IF k > Len(occs) THEN 0
    ELSE (IF OccId(occs[k]) = id THEN Get(occs[k], "count", 0) ELSE 0)
         + TotalFrom(occs, id, k + 1)

\* for every id met: the sum of its counts and the place it was first met
Tally(occs) ==
    [id \in {OccId(occs[k]) : k \in 1..Len(occs)} |->
        [total |-> TotalFrom(occs, id, 1), first |-> FirstSeen(occs, id)]]

\* id a ranks before id b: a larger total, or the same total and met earlier
RanksBefore(tally, a, b) ==
    \/ tally[a].total > tally[b].total
    \/ tally[a].total = tally[b].total /\ tally[a].first < tally[b].first

TopOf(tally, top) ==
    /\ Len(top) = (IF Cardinality(DOMAIN tally) < 10 THEN Cardinality(DOMAIN tally) ELSE 10)
    /\ \A i \in 1..Len(top) :
        /\ top[i].id \in DOMAIN tally
        /\ top[i].count = tally[top[i].id].total
        /\ \A j \in (i + 1)..Len(top) :
              top[i].id # top[j].id /\ RanksBefore(tally, top[i].id, top[j].id)
        /\ \A id \in DOMAIN tally \ {top[j].id : j \in 1..Len(top)} :
              RanksBefore(tally, top[i].id, id)

\* C3: topCrimes is the first min(10, n) of the n distinct ids met, ordered by
\* total count descending with ties in the order the ids were first met while
\* walking dawn, morning, afternoon, night; each entry's count is the sum of
\* the counts of every occurrence of its id over the four periods, a missing
\* count counting 0 and a missing crimeType being id 0.
C3_TopCrimes ==
    Succeeded => \A tally \in {Tally(AllOccurrences)} : TopOf(tally, Result.topCrimes)

\* C3 witness: more than ten ids are met, ten are shown, two shown neighbours
\* tie and stand in the order they were met (not the order of their ids), and
\* one shown count sums occurrences of two periods
C3_Witness ==
    /\ Succeeded
    /\ Cardinality(EncounteredIds) > 10
    /\ Len(Result.topCrimes) = 10
    /\ \E i \in 1..9 :
        /\ Result.topCrimes[i].count = Result.topCrimes[i + 1].count
        /\ Result.topCrimes[i].id > Result.topCrimes[i + 1].id
    /\ \E i \in 1..10 :
        Cardinality({k \in 1..Len(AllOccurrences) :
                        OccId(AllOccurrences[k]) = Result.topCrimes[i].id}) > 1

-----------------------------------------------------------------------------
(* The module used as a library: get_crime_type and analyze_location called   *)
(* any number of times in one process, against a remote side that changes     *)
(* between the calls.                                                         *)

LibIds == {1, 2}

LibOccurrences ==
    {<<[crimeType |-> 1, count |-> 2]>>,
     <<[crimeType |-> 2, count |-> 1], [crimeType |-> 1, count |-> 4]>>}

LibUpstreams ==
    {[post |-> JsonOutcome([location |-> Location,
                            content |-> [dawn |-> [score |-> 150000,
                                                   occurrencesWithinCriminalDangerZones |-> occ]]]),
      types |-> t] :
        occ \in LibOccurrences,
        t \in TypesEndpoints(LibIds, SUBSET LibIds, {"HTTPError", "TimeoutError"}, {1})}
    \cup {[post |-> RaiseOutcome("URLError"), types |-> <<NoRequest, NoRequest>>]}

GetCrimeTypeCall ==
    /\ \E crime_type_id \in LibIds :
        \E outcome \in TypeOutcomes(crime_type_id) :
            \E r \in {get_crime_type(CRIME_TYPE_CACHE, environ, crime_type_id, outcome)} :
                /\ call' = [fn |-> "get_crime_type", crime_type_id |-> crime_type_id]
                /\ upstream' = [post |-> NoRequest, types |-> (crime_type_id :> outcome)]
                /\ ret' = r.out
                /\ CRIME_TYPE_CACHE' = r.cache
                /\ wire' = r.sent
    /\ UNCHANGED <<environ, stdout, stderr>>

AnalyzeLocationCall ==
    /\ \E address \in Addresses, up \in LibUpstreams :
        \E r \in {analyze_location(CRIME_TYPE_CACHE, environ, address, up)} :
            /\ call' = [fn |-> "analyze_location", address |-> address]
            /\ upstream' = up
            /\ ret' = r.out
            /\ CRIME_TYPE_CACHE' = r.cache
            /\ wire' = r.sent
    /\ UNCHANGED <<environ, stdout, stderr>>

NextLibrary == GetCrimeTypeCall \/ AnalyzeLocationCall

SpecLibrary == InitIn({EmptyDict, KeyedEnviron}) /\ [][NextLibrary]_vars

\* the GET get_crime_type issues for an id
TypesRequest(crime_type_id) == [method |-> "GET", url |-> TypesUrl(environ, crime_type_id)]

\* the lookup a call makes for an id fails: no key to send, or the request raises
LookupFails(up, crime_type_id) ==
    \/ ~KeySet
    \/ crime_type_id \in DOMAIN up.types /\ up.types[crime_type_id].kind = "raise"

\* C2: get_crime_type never raises; when the id is not cached and the lookup
\* fails for any reason it returns {id, "Crime Type #<id>", score 1} and leaves
\* the cache as it was, so that a call for an id that is not cached issues the
\* GET (again, after a failure); and an analyze_location whose POST is answered
\* returns a result in which every top crime whose lookup failed is named
\* "Crime Type #<id>" with severity 1, and that id is still not cached.
C2_FallbackNotCached ==
    [][/\ call'.fn = "get_crime_type" =>
            /\ ~ret'.raised
            /\ call'.crime_type_id \notin DOMAIN CRIME_TYPE_CACHE =>
                /\ KeySet => wire' = <<TypesRequest(call'.crime_type_id)>>
                /\ LookupFails(upstream', call'.crime_type_id) =>
                    /\ ret'.value = [id |-> call'.crime_type_id,
                                     description |-> "Crime Type #"
                                                     \o ToString(call'.crime_type_id),
                                     score |-> 1]
                    /\ CRIME_TYPE_CACHE' = CRIME_TYPE_CACHE
       /\ (call'.fn = "analyze_location" /\ KeySet /\ upstream'.post.kind = "json") =>
            /\ ~ret'.raised
            /\ ret'.value.success
            /\ \A i \in 1..Len(ret'.value.topCrimes) :
                LET entry == ret'.value.topCrimes[i]
                IN  (entry.id \notin DOMAIN CRIME_TYPE_CACHE
                     /\ LookupFails(upstream', entry.id)) =>
                        /\ entry.name = "Crime Type #" \o ToString(entry.id)
                        /\ entry.severity = 1
                        /\ entry.id \notin DOMAIN CRIME_TYPE_CACHE'
      ]_vars

\* C2 witness: an analysis has succeeded although the lookup of id 2 failed:
\* its entry carries the fallback name and severity, the GET for 2 went out,
\* and 2 is not cached while the id whose lookup succeeded is
C2_Witness ==
    /\ call.fn = "analyze_location"
    /\ ~ret.raised
    /\ upstream.types[2].kind = "raise"
    /\ \E i \in 1..Len(ret.value.topCrimes) :
        /\ ret.value.topCrimes[i].id = 2
        /\ ret.value.topCrimes[i].name = "Crime Type #2"
        /\ ret.value.topCrimes[i].severity = 1
    /\ \E k \in 1..Len(wire) : wire[k] = TypesRequest(2)
    /\ DOMAIN CRIME_TYPE_CACHE = {1}

\* C8: over any sequence of calls the cache only grows: every entry stays, with
\* its value; an id enters only when its lookup succeeded, with the value the
\* lookup returned; and get_crime_type of a cached id returns the cached value
\* without a request.
C8_CacheOnlyGrows ==
    [][/\ \A id \in DOMAIN CRIME_TYPE_CACHE :
            id \in DOMAIN CRIME_TYPE_CACHE' /\ CRIME_TYPE_CACHE'[id] = CRIME_TYPE_CACHE[id]
       /\ \A id \in DOMAIN CRIME_TYPE_CACHE' \ DOMAIN CRIME_TYPE_CACHE :
            /\ id \in DOMAIN upstream'.types
            /\ upstream'.types[id].kind = "json"
            /\ CRIME_TYPE_CACHE'[id] = upstream'.types[id].value
            /\ \E k \in 1..Len(wire') : wire'[k] = TypesRequest(id)
            /\ call'.fn = "get_crime_type" => ret' = Returned(CRIME_TYPE_CACHE'[id])
       /\ (call'.fn = "get_crime_type" /\ call'.crime_type_id \in DOMAIN CRIME_TYPE_CACHE) =>
            /\ ret' = Returned(CRIME_TYPE_CACHE[call'.crime_type_id])
            /\ wire' = <<>>
      ]_vars

\* C8 witness: get_crime_type was called for a cached id while the remote side
\* would have answered another revision, or failed: the cached value came
\* back and no request went out
C8_Witness ==
    /\ call.fn = "get_crime_type"
    /\ call.crime_type_id \in DOMAIN CRIME_TYPE_CACHE
    /\ upstream.types[call.crime_type_id]
           # JsonOutcome(CRIME_TYPE_CACHE[call.crime_type_id])
    /\ ret = Returned(CRIME_TYPE_CACHE[call.crime_type_id])
    /\ wire = <<>>
    /\ Cardinality(DOMAIN CRIME_TYPE_CACHE) > 1

=============================================================================
